---- MODULE Spec2Model ----
(***************************************************************************)
(* ProcessMemorySniffer: runSniffer -> ProcessQueryService::collectProcesses *)
(* -> enumerateProcessIds / queryProcess (ProcessHandle, tryGetProcessName)  *)
(* -> printTopByWorkingSet.  The program is single-threaded; one variable pc *)
(* holds the position of the only thread in the flattened call stack.  The   *)
(* Win32 primitives (EnumProcesses, OpenProcess, GetProcessMemoryInfo,       *)
(* GetModuleBaseNameW, QueryFullProcessImageNameW, CloseHandle) are the      *)
(* environment: their outcomes are fixed per process ID in the variable os.  *)
(* Every allocation may fail: std::bad_alloc then unwinds to runSniffer's     *)
(* second handler, or meets noexcept in the name lookup (std::terminate).    *)
(* The other exception is the Win32Error of enumerateProcessIds.             *)
(***************************************************************************)
EXTENDS Integers, Sequences, FiniteSets, TLC

\* ---------------------------------------------------------------- bounds
\* Hosts with fewer than PID_VECT_SIZE processes carry at most MaxLive IDs.
MaxLive == 3
\* Hosts with many processes need up to MaxDoublings buffer doublings.
MaxDoublings == 3
\* A user of ProcessHandle has MaxWrappers objects and wraps MaxHandles handles.
MaxWrappers == 2
MaxHandles == 2
\* A native handle is given to the constructor at most MaxWraps times.
MaxWraps == 2

\* ------------------------------------------------------- program constants
PID_VECT_SIZE == 1024
MAX_NAME_LEN == 28
SizeofDWORD == 4
EXIT_SUCCESS == 0
EXIT_FAILURE == 1
NULL == 0

RECURSIVE Pow2(_)
Pow2(k) == IF k = 0 THEN 1 ELSE 2 * Pow2(k - 1)

\* The number of DWORD entries whose byte size is 2^32, where a DWORD wraps.
DWORD_ENTRIES == Pow2(30)
\* A DWORD byte count b is held as q = b \div sizeof(DWORD), r = b % sizeof(DWORD),
\* so that every value below 2^32 can be written; entries is reduced modulo
\* 2^30, which is the byte count modulo 2^32.
Dword(entries, rest) == [q |-> entries % DWORD_ENTRIES, r |-> rest % SizeofDWORD]
\* An empty std::optional<ProcessHandle> / std::optional<ProcessInfo>.
Nullopt == [has |-> FALSE, handle_ |-> NULL]
NoException == [thrown |-> FALSE, type |-> "", what |-> "", code |-> 0, from |-> ""]
NoCounters == [WorkingSetSize |-> 0, PrivateUsage |-> 0]
NoName == [found |-> FALSE, text |-> ""]
UNKNOWN_NAME == "<unknown>"

Min(a, b) == IF a < b THEN a ELSE b

\* ------------------------------------------------------------ environment
\* The process IDs whose inspection outcome varies between hosts.
ProcIds == {0, 100, 200}
TopNs == {1, 2, 10}
ErrorCodes == {5, 8}

Name(s) == [found |-> TRUE, text |-> s]
BaseNames == {NoName, Name("app.exe"), Name("ProcessMemorySnifferHost.exe")}
FullNames == {NoName, Name("C:\\Windows\\System32\\svchost.exe")}

\* PROCESS_MEMORY_COUNTERS_EX values the OS reports for a process.
WorkingSetOf(pid) == IF pid = 200 THEN 52428800 ELSE 10485760
PrivateUsageOf(pid) == IF pid = 200 THEN 20971520 ELSE 5242880

Denied == [open |-> FALSE, mem |-> FALSE, ws |-> 0, priv |-> 0,
           base |-> NoName, full |-> NoName]
MemFail == [open |-> TRUE, mem |-> FALSE, ws |-> 0, priv |-> 0,
            base |-> NoName, full |-> NoName]
Inspectable(pid, b, f) == [open |-> TRUE, mem |-> TRUE, ws |-> WorkingSetOf(pid),
                           priv |-> PrivateUsageOf(pid), base |-> b, full |-> f]
\* A stubbed OS may let ID 0 be opened; the other IDs have every outcome.
OutcomesOf(pid) ==
    IF pid = 0
    THEN {Denied, Inspectable(0, Name("app.exe"), NoName)}
    ELSE {Denied, MemFail}
           \cup {Inspectable(pid, b, f) : b \in BaseNames, f \in FullNames}

\* Every assignment of an outcome to the process IDs.
OsStates == {f \in [ProcIds -> UNION {OutcomesOf(p) : p \in ProcIds}] :
                \A p \in ProcIds : f[p] \in OutcomesOf(p)}

\* The end-to-end host of the specification: 100 is protected, 200 is app.exe.
ExampleOs == [p \in ProcIds |->
                 IF p = 200 THEN Inspectable(200, Name("app.exe"), NoName) ELSE Denied]

RECURSIVE SeqsUpTo(_, _)
SeqsUpTo(S, n) == IF n = 0 THEN {<<>>}
                  ELSE LET shorter == SeqsUpTo(S, n - 1)
                       IN  shorter \cup {Append(s, x) : s \in {t \in shorter : Len(t) = n - 1}, x \in S}

ShortLists == SeqsUpTo(ProcIds, MaxLive)
\* Windows process IDs are multiples of four, starting with the idle process 0.
BigList(n) == [i \in 1..n |-> 4 * (i - 1)]
BigLengths == UNION {{PID_VECT_SIZE * Pow2(k) - 1, PID_VECT_SIZE * Pow2(k)} :
                       k \in 0..(MaxDoublings - 1)}
BigLists == {BigList(n) : n \in BigLengths}

\* The outcome of every OS call on process pid; unknown IDs are protected.
OsOutcome(o, pid) == IF pid \in DOMAIN o THEN o[pid] ELSE Denied

\* ------------------------------------------------------------------ state
VARIABLES
    pc,            \* position of the thread
    live,          \* OS: the live process IDs, in enumeration order
    os,            \* OS: per-ID outcome of open / memory query / name lookups
    lastError,     \* OS: the thread's GetLastError() value
    handleTable,   \* OS: one entry per handle ever returned by OpenProcess
    calls,         \* OS calls issued by the current/last queryProcess call
    topN,          \* runSniffer's argument
    pids,          \* enumerateProcessIds: the vector<DWORD> buffer
    bytesReturned, \* enumerateProcessIds: out-parameter of EnumProcesses
    attempts,      \* number of EnumProcesses calls made so far
    idx,           \* collectProcesses: position of the range-for loop
    pid,           \* queryProcess: its argument
    handleOpt,     \* queryProcess: std::optional<ProcessHandle>
    pmc,           \* queryProcess: PROCESS_MEMORY_COUNTERS_EX
    result,        \* collectProcesses: std::vector<ProcessInfo>
    exception,     \* the exception in flight / caught
    stdout,        \* lines written to std::wcout
    stderr,        \* lines written to std::cerr
    exitCode,      \* runSniffer's return value (-1 while running)
    firstPass,     \* a caller of collectProcesses: the vector an earlier call returned
    wrappers,      \* a user of ProcessHandle: its wrapper objects
    wrapCount      \* per native handle, the ProcessHandle(HANDLE) calls given it

\* The state of code that uses the classes directly instead of runSniffer.
harness == <<firstPass, wrappers, wrapCount>>

vars == <<harness, pc, live, os, lastError, handleTable, calls, topN, pids, bytesReturned,
          attempts, idx, pid, handleOpt, pmc, result, exception, stdout, stderr, exitCode>>

\* ---------------------------------------------------- std::vector<DWORD>
\* A vector of `size` elements: `head` holds the leading elements that were
\* written, every element behind it is value-initialised (0).
Vector(n) == [size |-> n, head |-> <<>>]
VecAt(v, i) == IF i <= Len(v.head) THEN v.head[i] ELSE 0
VecResize(v, n) == [size |-> n, head |-> SubSeq(v.head, 1, Min(n, Len(v.head)))]
VecWrite(v, s) == [size |-> v.size,
                   head |-> s \o SubSeq(v.head, Len(s) + 1, Len(v.head))]
VecSeq(v) == [i \in 1..v.size |-> VecAt(v, i)]

\* No earlier call of collectProcesses has returned.
NoPass == [done |-> FALSE, result |-> <<>>]

\* The places a ProcessHandle object can live in; a place without an object.
Slots == 1..MaxWrappers
Destroyed == [live |-> FALSE, handle_ |-> NULL]

\* runSniffer is about to run.  Hosts with up to MaxLive processes are taken
\* with every OS outcome; hosts with 1023 processes or more, which make the
\* enumerator grow its buffer, are taken with the outcomes of ExampleOs.
Init ==
    /\ pc = "start"
    /\ live \in ShortLists \cup BigLists
    /\ os \in IF Len(live) <= MaxLive THEN OsStates ELSE {ExampleOs}
    /\ topN \in TopNs
    /\ lastError = 0
    /\ handleTable = <<>>
    /\ calls = <<>>
    /\ pids = Vector(0)
    /\ bytesReturned = Dword(0, 0)
    /\ attempts = 0
    /\ idx = 0
    /\ pid = 0
    /\ handleOpt = Nullopt
    /\ pmc = NoCounters
    /\ result = <<>>
    /\ exception = NoException
    /\ stdout = <<>>
    /\ stderr = <<>>
    /\ exitCode = -1
    /\ firstPass = NoPass
    /\ wrappers = [s \in Slots |-> Destroyed]
    /\ wrapCount = <<>>

\* ------------------------------------------------------------ Win32Error
\* Mutant: the error code is not stored.
Win32Error_NoCode(context, errorCode) ==
    [thrown |-> TRUE, type |-> "Win32Error", what |-> context, code |-> 0,
     from |-> "enumerateProcessIds"]

\* Win32Error(context, errorCode = ::GetLastError()).
Win32Error(context, errorCode) ==
    [thrown |-> TRUE, type |-> "Win32Error",
     what |-> context \o "(error " \o ToString(errorCode) \o ")",
     code |-> errorCode, from |-> "enumerateProcessIds"]

\* ------------------------------------------------- enumerateProcessIds
\* static_cast<DWORD>(pids.size() * sizeof(DWORD)): the byte size, modulo 2^32.
ByteSize(v) == Dword(v.size, 0)

\* EnumProcesses(buf, cb, &bytesReturned) on a host with live list l: the IDs
\* it writes, as many as fit in cb bytes.
EnumProcessesWrites(l, cb) == SubSeq(l, 1, Min(Len(l), cb.q))

\* count = bytesReturned / sizeof(DWORD).
Count(br) == br.q

\* runSniffer constructs the service and calls collectProcesses, which calls
\* enumerateProcessIds: std::vector<DWORD> pids(PID_VECT_SIZE).
\* What ex.what() of a std::bad_alloc says: the text is the library's.
AllocFailures == {"std::bad_alloc", "bad allocation"}

\* A std::bad_alloc thrown in function f; its text is read where it is caught.
BadAlloc(f) ==
    [thrown |-> TRUE, type |-> "std::exception", what |-> "", code |-> 0, from |-> f]

\* An allocation of function f fails where the code can unwind: the exception
\* is on its way to runSniffer's handlers and nothing else has changed.
ThrowsBadAlloc(f) ==
    /\ exception' = BadAlloc(f)
    /\ pc' = "unwinding"
    /\ UNCHANGED <<harness, live, os, lastError, handleTable, calls, topN, pids,
                   bytesReturned, attempts, idx, pid, handleOpt, pmc, result, stdout,
                   stderr, exitCode>>

\* std::vector<DWORD> pids(PID_VECT_SIZE) cannot get its memory.
RunSnifferThrows ==
    /\ pc = "start"
    /\ ThrowsBadAlloc("enumerateProcessIds")

RunSniffer ==
    /\ pc = "start"
    /\ pids' = Vector(PID_VECT_SIZE)
    /\ pc' = "enum_call"
    /\ UNCHANGED <<harness, live, os, lastError, handleTable, calls, topN, bytesReturned,
                   attempts, idx, pid, handleOpt, pmc, result, exception, stdout,
                   stderr, exitCode>>

\* EnumProcesses succeeds: it fills the buffer and reports the bytes used.
EnumProcessesOk ==
    /\ pc = "enum_call"
    /\ LET written == EnumProcessesWrites(live, ByteSize(pids))
       IN  /\ pids' = VecWrite(pids, written)
           /\ bytesReturned' = Dword(Len(written), 0)
    /\ attempts' = attempts + 1
    /\ pc' = "enum_check"
    /\ UNCHANGED <<harness, live, os, lastError, handleTable, calls, topN, idx, pid,
                   handleOpt, pmc, result, exception, stdout, stderr, exitCode>>

\* A stubbed EnumProcesses that reports the whole buffer as used, whatever
\* its size: bytesReturned is the byte size it was given.  What it writes
\* into the buffer plays no part and is left out.
EnumProcessesFull ==
    /\ pc = "enum_call"
    /\ bytesReturned' = ByteSize(pids)
    /\ attempts' = attempts + 1
    /\ pc' = "enum_check"
    /\ UNCHANGED <<harness, live, os, lastError, handleTable, calls, topN, pids, idx, pid,
                   handleOpt, pmc, result, exception, stdout, stderr, exitCode>>

\* EnumProcesses fails outright: throw Win32Error("EnumProcesses failed.").
\* Neither enumerateProcessIds nor collectProcesses catches it.
EnumProcessesFail ==
    /\ pc = "enum_call"
    /\ \E code \in ErrorCodes :
          /\ lastError' = code
          /\ exception' = Win32Error("EnumProcesses failed.", code)
    /\ bytesReturned' = Dword(0, 0)
    /\ attempts' = attempts + 1
    /\ pc' = "unwinding"
    /\ UNCHANGED <<harness, live, os, handleTable, calls, topN, pids, idx, pid, handleOpt,
                   pmc, result, stdout, stderr, exitCode>>

\* EnumProcesses fails and the message string of the Win32Error cannot be
\* built: std::bad_alloc leaves enumerateProcessIds in its place.
EnumProcessesFailNoMemory ==
    /\ pc = "enum_call"
    /\ \E code \in ErrorCodes : lastError' = code
    /\ exception' = BadAlloc("enumerateProcessIds")
    /\ bytesReturned' = Dword(0, 0)
    /\ attempts' = attempts + 1
    /\ pc' = "unwinding"
    /\ UNCHANGED <<harness, live, os, handleTable, calls, topN, pids, idx, pid, handleOpt,
                   pmc, result, stdout, stderr, exitCode>>

\* Mutant: a buffer that is exactly full is accepted.
Accepts_Full(v, br) == Count(br) <= v.size

\* count < pids.size(): trim and return to collectProcesses, which starts its loop.
Accepts(v, br) == Count(br) < v.size

\* Mutant: the result vector is not a fresh local; it keeps what it held.
EnumAccept_KeepsResult ==
    /\ pc = "enum_check"
    /\ Accepts(pids, bytesReturned)
    /\ pids' = VecResize(pids, Count(bytesReturned))
    /\ result' = result
    /\ idx' = 1
    /\ pc' = "collect_loop"
    /\ UNCHANGED <<harness, live, os, lastError, handleTable, calls, topN, bytesReturned,
                   attempts, pid, handleOpt, pmc, exception, stdout, stderr, exitCode>>

EnumAccept ==
    /\ pc = "enum_check"
    /\ Accepts(pids, bytesReturned)
    /\ pids' = VecResize(pids, Count(bytesReturned))
    /\ result' = <<>>
    /\ idx' = 1
    /\ pc' = "collect_loop"
    /\ UNCHANGED <<harness, live, os, lastError, handleTable, calls, topN, bytesReturned,
                   attempts, pid, handleOpt, pmc, exception, stdout, stderr, exitCode>>

\* The count was accepted: enumerateProcessIds trims the buffer and returns
\* it, and in collectProcesses result.reserve(pids.size()) cannot get its
\* memory; reserve(0) asks for none.
EnumAcceptThrows ==
    /\ pc = "enum_check"
    /\ Accepts(pids, bytesReturned)
    /\ Count(bytesReturned) > 0
    /\ pids' = VecResize(pids, Count(bytesReturned))
    /\ exception' = BadAlloc("collectProcesses")
    /\ pc' = "unwinding"
    /\ UNCHANGED <<harness, live, os, lastError, handleTable, calls, topN, bytesReturned,
                   attempts, idx, pid, handleOpt, pmc, result, stdout, stderr, exitCode>>

\* Mutant: the buffer grows by a fixed step instead of doubling.
Grown_Linear(v) == VecResize(v, v.size + PID_VECT_SIZE)

\* The buffer was full: pids.resize(pids.size() * 2) and try again.
Grown(v) == VecResize(v, v.size * 2)

EnumGrow ==
    /\ pc = "enum_check"
    /\ ~Accepts(pids, bytesReturned)
    /\ pids' = Grown(pids)
    /\ pc' = "enum_call"
    /\ UNCHANGED <<harness, live, os, lastError, handleTable, calls, topN, bytesReturned,
                   attempts, idx, pid, handleOpt, pmc, result, exception, stdout,
                   stderr, exitCode>>

\* The buffer was full and pids.resize(pids.size() * 2) cannot get the memory:
\* it throws, the vector is destroyed on the way out of enumerateProcessIds and
\* collectProcesses.  Whether memory suffices is the host's matter at each
\* growth.
EnumGrowThrows ==
    /\ pc = "enum_check"
    /\ ~Accepts(pids, bytesReturned)
    /\ ThrowsBadAlloc("enumerateProcessIds")

\* --------------------------------------------------------- ProcessHandle
\* A wrapper is [handle_ |-> h]; every operation returns the wrappers it
\* leaves behind and the ::CloseHandle calls it made.
PH_Construct(handle) == [handle_ |-> handle]

\* Mutant: the move constructor copies the handle and leaves the source set.
PH_MoveConstruct_NoReset(other) ==
    [self |-> [handle_ |-> other.handle_], other |-> [handle_ |-> other.handle_]]

\* ProcessHandle(ProcessHandle&& other): handle_(std::exchange(other.handle_, nullptr)).
PH_MoveConstruct(other) ==
    [self |-> [handle_ |-> other.handle_], other |-> [handle_ |-> NULL]]

\* close(): CloseHandle the handle if set, then reset it.
PH_close(w) ==
    [self |-> [handle_ |-> NULL],
     closed |-> IF w.handle_ # NULL THEN <<w.handle_>> ELSE <<>>]

\* Mutant: move assignment without the this != &other test.  On a self-move
\* close() resets handle_ before std::exchange reads it back from the same object.
PH_MoveAssign_NoSelfCheck(w, other, isSelf) ==
    LET c == PH_close(w)
        source == IF isSelf THEN c.self ELSE other
    IN  [self |-> [handle_ |-> source.handle_],
         other |-> [handle_ |-> NULL],
         closed |-> c.closed]

\* operator=(ProcessHandle&& other): unless other is this very object, close()
\* and then handle_ = std::exchange(other.handle_, nullptr).  isSelf is
\* this == &other; on a self-move `other` is the wrapper itself.
PH_MoveAssign(w, other, isSelf) ==
    IF isSelf
    THEN [self |-> w, other |-> w, closed |-> <<>>]
    ELSE LET c == PH_close(w)
         IN  [self |-> [handle_ |-> other.handle_],
              other |-> [handle_ |-> NULL],
              closed |-> c.closed]

\* ~ProcessHandle() calls close().
PH_Destroy(w) == PH_close(w).closed

\* Mutant: a null handle is wrapped like any other.
PH_open_NoNullCheck(handle) ==
    [opt |-> [has |-> TRUE, handle_ |-> handle], closed |-> <<>>]

\* ProcessHandle::open, given the HANDLE that ::OpenProcess returned: nullopt
\* for a null handle, else an optional move-constructed from the temporary
\* ProcessHandle(handle), which is destroyed at the end of the return statement.
PH_open(handle) ==
    IF handle = NULL
    THEN [opt |-> Nullopt, closed |-> <<>>]
    ELSE LET moved == PH_MoveConstruct(PH_Construct(handle))
         IN  [opt |-> [has |-> TRUE, handle_ |-> moved.self.handle_],
              closed |-> PH_Destroy(moved.other)]

\* Mutant: the optional goes away without destroying the wrapper it contains.
OptDestroy_Leak(opt) == <<>>

\* ~optional<ProcessHandle>: destroys the contained wrapper, if any.
OptDestroy(opt) == IF opt.has THEN PH_Destroy([handle_ |-> opt.handle_]) ELSE <<>>

\* ------------------------------------------------------- the OS handle table
\* handleTable[h] is the process handle h refers to and the number of
\* ::CloseHandle calls made on it; h is open while that number is 0.
OpenProcess(o, table, p) == IF OsOutcome(o, p).open THEN Len(table) + 1 ELSE NULL

AfterOpen(table, p, h) ==
    IF h = NULL THEN table ELSE Append(table, [pid |-> p, closes |-> 0])

Occurrences(hs, h) == Cardinality({i \in DOMAIN hs : hs[i] = h})

AfterClose(table, hs) ==
    [h \in DOMAIN table |-> [table[h] EXCEPT !.closes = @ + Occurrences(hs, h)]]

HandleOpen(table, h) == h \in DOMAIN table /\ table[h].closes = 0

OpenHandles(table) == {h \in DOMAIN table : table[h].closes = 0}

CloseCalls(hs) == [i \in DOMAIN hs |-> <<"CloseHandle", hs[i]>>]

\* ------------------------------------------- ProcessHandle objects in use
\* wrappers[s] is the object in place s: whether it is alive, and its handle_.
\* The operations below are the ones a user of the class can perform.
Alive(w) == [live |-> TRUE, handle_ |-> w.handle_]

Obj(s) == [handle_ |-> wrappers[s].handle_]

HandleFrame ==
    UNCHANGED <<firstPass, pc, live, os, lastError, topN, pids, bytesReturned, attempts,
                idx, pid, handleOpt, pmc, result, exception, stdout, stderr, exitCode>>

\* ProcessHandle x(h).  The constructor takes whatever HANDLE it is given:
\* h is either a handle just obtained from the system (the next table entry)
\* or one obtained earlier, which another object may hold or have closed.
WrapNative(s, h) ==
    /\ ~wrappers[s].live
    /\ \/ /\ h = Len(handleTable) + 1
          /\ Len(handleTable) < MaxHandles
          /\ handleTable' = AfterOpen(handleTable, 100, h)
          /\ wrapCount' = Append(wrapCount, 1)
       \/ /\ h \in DOMAIN handleTable
          /\ wrapCount[h] < MaxWraps
          /\ handleTable' = handleTable
          /\ wrapCount' = [wrapCount EXCEPT ![h] = @ + 1]
    /\ wrappers' = [wrappers EXCEPT ![s] = Alive(PH_Construct(h))]
    /\ UNCHANGED calls
    /\ HandleFrame

\* ProcessHandle x: the default constructor leaves handle_{nullptr}.
WrapDefault(s) ==
    /\ ~wrappers[s].live
    /\ wrappers' = [wrappers EXCEPT ![s] = Alive(PH_Construct(NULL))]
    /\ UNCHANGED <<handleTable, calls, wrapCount>>
    /\ HandleFrame

\* ProcessHandle x(std::move(y)), x in place s and y in place t.
WrapMoveConstruct(s, t) ==
    /\ s # t
    /\ ~wrappers[s].live
    /\ wrappers[t].live
    /\ LET r == PH_MoveConstruct(Obj(t))
       IN  wrappers' = [wrappers EXCEPT ![s] = Alive(r.self), ![t] = Alive(r.other)]
    /\ UNCHANGED <<handleTable, calls, wrapCount>>
    /\ HandleFrame

\* x = std::move(y), x in place s and y in place t; s = t is x = std::move(x).
WrapMoveAssign(s, t) ==
    /\ wrappers[s].live
    /\ wrappers[t].live
    /\ LET r == PH_MoveAssign(Obj(s), Obj(t), s = t)
       IN  /\ wrappers' = IF s = t
                          THEN [wrappers EXCEPT ![s] = Alive(r.self)]
                          ELSE [wrappers EXCEPT ![s] = Alive(r.self),
                                                ![t] = Alive(r.other)]
           /\ handleTable' = AfterClose(handleTable, r.closed)
           /\ calls' = calls \o CloseCalls(r.closed)
    /\ UNCHANGED wrapCount
    /\ HandleFrame

\* The object in place s goes out of scope.
WrapDestroy(s) ==
    /\ wrappers[s].live
    /\ LET closed == PH_Destroy(Obj(s))
       IN  /\ handleTable' = AfterClose(handleTable, closed)
           /\ calls' = calls \o CloseCalls(closed)
    /\ wrappers' = [wrappers EXCEPT ![s] = Destroyed]
    /\ UNCHANGED wrapCount
    /\ HandleFrame

\* GetProcessMemoryInfo(handle, &pmc, sizeof(pmc)).
GetProcessMemoryInfo(o, table, h) ==
    IF HandleOpen(table, h) /\ OsOutcome(o, table[h].pid).mem
    THEN [ok |-> TRUE,
          pmc |-> [WorkingSetSize |-> OsOutcome(o, table[h].pid).ws,
                   PrivateUsage |-> OsOutcome(o, table[h].pid).priv]]
    ELSE [ok |-> FALSE, pmc |-> NoCounters]

GetModuleBaseNameW(o, table, h) ==
    IF HandleOpen(table, h) THEN OsOutcome(o, table[h].pid).base ELSE NoName

QueryFullProcessImageNameW(o, table, h) ==
    IF HandleOpen(table, h) THEN OsOutcome(o, table[h].pid).full ELSE NoName

\* ----------------------------------------------------- tryGetProcessName
\* Mutant: the full image path is tried first.
tryGetProcessName_FullFirst(o, table, process) ==
    LET base == GetModuleBaseNameW(o, table, process)
        full == QueryFullProcessImageNameW(o, table, process)
    IN  IF full.found
        THEN [name |-> full.text, calls |-> <<<<"QueryFullProcessImageNameW", process>>>>]
        ELSE [name |-> IF base.found THEN base.text ELSE UNKNOWN_NAME,
              calls |-> <<<<"QueryFullProcessImageNameW", process>>,
                          <<"GetModuleBaseNameW", process>>>>]

\* The name and the OS calls made to find it.
tryGetProcessName(o, table, process) ==
    LET base == GetModuleBaseNameW(o, table, process)
        full == QueryFullProcessImageNameW(o, table, process)
    IN  IF base.found
        THEN [name |-> base.text, calls |-> <<<<"GetModuleBaseNameW", process>>>>]
        ELSE [name |-> IF full.found THEN full.text ELSE UNKNOWN_NAME,
              calls |-> <<<<"GetModuleBaseNameW", process>>,
                          <<"QueryFullProcessImageNameW", process>>>>]

\* ---------------------------------------------------------- queryProcess
\* Mutant: no ID is rejected up front.
RejectsPid_Never(p) == FALSE

\* if (pid == 0) return std::nullopt;
RejectsPid(p) == p = 0

\* collectProcesses: the loop has another ID to inspect.
HasNext == pc = "collect_loop" /\ idx <= pids.size

\* queryProcess(0) returns nullopt at once; collectProcesses skips the ID.
QueryProcessZero ==
    /\ HasNext
    /\ RejectsPid(VecAt(pids, idx))
    /\ pid' = VecAt(pids, idx)
    /\ calls' = <<>>
    /\ idx' = idx + 1
    /\ UNCHANGED <<harness, pc, live, os, lastError, handleTable, topN, pids, bytesReturned,
                   attempts, handleOpt, pmc, result, exception, stdout, stderr,
                   exitCode>>

\* ProcessHandle::open(pid): on failure queryProcess returns nullopt at once,
\* else it goes on to the memory query with the handle in handleOpt.
QueryProcessOpen ==
    /\ HasNext
    /\ ~RejectsPid(VecAt(pids, idx))
    /\ LET p == VecAt(pids, idx)
           h == OpenProcess(os, handleTable, p)
           opened == PH_open(h)
       IN  /\ pid' = p
           /\ handleTable' = AfterClose(AfterOpen(handleTable, p, h), opened.closed)
           /\ calls' = <<<<"OpenProcess", p>>>> \o CloseCalls(opened.closed)
           /\ IF opened.opt.has
              THEN /\ handleOpt' = opened.opt
                   /\ pc' = "qp_mem"
                   /\ idx' = idx
              ELSE /\ handleOpt' = Nullopt
                   /\ pc' = "collect_loop"
                   /\ idx' = idx + 1
    /\ UNCHANGED <<harness, live, os, lastError, topN, pids, bytesReturned, attempts, pmc,
                   result, exception, stdout, stderr, exitCode>>

\* GetProcessMemoryInfo fails: return nullopt; handleOpt goes out of scope.
QueryProcessMemFail ==
    /\ pc = "qp_mem"
    /\ ~GetProcessMemoryInfo(os, handleTable, handleOpt.handle_).ok
    /\ LET closed == OptDestroy(handleOpt)
       IN  /\ handleTable' = AfterClose(handleTable, closed)
           /\ calls' = calls \o <<<<"GetProcessMemoryInfo", handleOpt.handle_>>>>
                             \o CloseCalls(closed)
    /\ handleOpt' = Nullopt
    /\ pc' = "collect_loop"
    /\ idx' = idx + 1
    /\ UNCHANGED <<harness, live, os, lastError, topN, pids, bytesReturned, attempts, pid,
                   pmc, result, exception, stdout, stderr, exitCode>>

\* GetProcessMemoryInfo succeeds and fills pmc.
QueryProcessMemOk ==
    /\ pc = "qp_mem"
    /\ GetProcessMemoryInfo(os, handleTable, handleOpt.handle_).ok
    /\ pmc' = GetProcessMemoryInfo(os, handleTable, handleOpt.handle_).pmc
    /\ calls' = calls \o <<<<"GetProcessMemoryInfo", handleOpt.handle_>>>>
    /\ pc' = "qp_name"
    /\ UNCHANGED <<harness, live, os, lastError, handleTable, topN, pids, bytesReturned,
                   attempts, idx, pid, handleOpt, result, exception, stdout, stderr,
                   exitCode>>

\* Mutant: the two counters are stored in each other's field.
MakeInfo_Swapped(p, n, counters) ==
    [pid |-> p, name |-> n, workingSetBytes |-> counters.PrivateUsage,
     privateBytes |-> counters.WorkingSetSize]

\* The ProcessInfo that queryProcess builds.
MakeInfo(p, n, counters) ==
    [pid |-> p, name |-> n, workingSetBytes |-> counters.WorkingSetSize,
     privateBytes |-> counters.PrivateUsage]

\* queryProcess fills info, returns it (handleOpt goes out of scope) and
\* collectProcesses appends it to result.
QueryProcessReturn ==
    /\ pc = "qp_name"
    /\ LET named == tryGetProcessName(os, handleTable, handleOpt.handle_)
           closed == OptDestroy(handleOpt)
       IN  /\ result' = Append(result, MakeInfo(pid, named.name, pmc))
           /\ handleTable' = AfterClose(handleTable, closed)
           /\ calls' = calls \o named.calls \o CloseCalls(closed)
    /\ handleOpt' = Nullopt
    /\ pmc' = NoCounters
    /\ pc' = "collect_loop"
    /\ idx' = idx + 1
    /\ UNCHANGED <<harness, live, os, lastError, topN, pids, bytesReturned, attempts, pid,
                   exception, stdout, stderr, exitCode>>

\* tryGetProcessName cannot get the memory for the std::wstring it returns:
\* the exception meets noexcept, std::terminate ends the process where it
\* stands, and handleOpt's destructor never runs.
QueryProcessNameTerminates ==
    /\ pc = "qp_name"
    /\ calls' = calls \o tryGetProcessName(os, handleTable, handleOpt.handle_).calls
    /\ exception' = BadAlloc("tryGetProcessName")
    /\ pc' = "terminated"
    /\ UNCHANGED <<harness, live, os, lastError, handleTable, topN, pids, bytesReturned,
                   attempts, idx, pid, handleOpt, pmc, result, stdout, stderr, exitCode>>

\* -------------------------------------------------- printTopByWorkingSet
RECURSIVE Spaces(_)
Spaces(n) == IF n <= 0 THEN "" ELSE " " \o Spaces(n - 1)

\* std::left << std::setw(w) << s: pads on the right, never truncates.
Pad(s, w) == s \o Spaces(w - Len(s))

MiB == 1024 * 1024

\* static_cast<double>(bytes) / (1024.0 * 1024.0), printed fixed with
\* precision 2 (round to nearest, ties to even).
FormatMB(bytes) ==
    LET scaled == (bytes % MiB) * 100
        q == scaled \div MiB
        r == scaled % MiB
        up == 2 * r > MiB \/ (2 * r = MiB /\ q % 2 = 1)
        h == (bytes \div MiB) * 100 + q + (IF up THEN 1 ELSE 0)
    IN  ToString(h \div 100) \o "." \o ToString((h % 100) \div 10) \o ToString(h % 10)

\* The name column of a row.
DisplayName(name) ==
    IF Len(name) > MAX_NAME_LEN
    THEN SubSeq(name, 1, MAX_NAME_LEN - 1) \o "..."
    ELSE name

Row(p) ==
    [kind |-> "row", pid |-> p.pid, displayName |-> DisplayName(p.name),
     wsMB |-> FormatMB(p.workingSetBytes), privMB |-> FormatMB(p.privateBytes),
     text |-> Pad(ToString(p.pid), 8) \o Pad(DisplayName(p.name), 30)
                \o Pad(FormatMB(p.workingSetBytes), 16)
                \o Pad(FormatMB(p.privateBytes), 16)]

\* Mutant: the comparator orders by ascending working set.
Before_Ascending(a, b) == a.workingSetBytes < b.workingSetBytes

\* The comparator handed to std::sort.
Before(a, b) == a.workingSetBytes > b.workingSetBytes

\* std::sort is not stable: every ordering of the records that the comparator
\* accepts is a possible outcome.
SortOutcomes(processes) ==
    LET n == Len(processes)
        perms == {f \in [1..n -> 1..n] : \A i, j \in 1..n : i # j => f[i] # f[j]}
    IN  {[i \in 1..n |-> processes[f[i]]] : f \in
            {g \in perms : \A i, j \in 1..n :
                              i < j => ~Before(processes[g[j]], processes[g[i]])}}

\* topN = std::min(topN, sorted.size()).
Clamp(n, size) == Min(n, size)

\* The lines printed for a non-empty collection, given the sort's outcome.
Table(sorted, n) ==
    <<[kind |-> "title", topN |-> Clamp(n, Len(sorted))], [kind |-> "header"]>>
      \o [i \in 1..Clamp(n, Len(sorted)) |-> Row(sorted[i])]

\* Mutant: an empty collection is reported as a failure.
PrintEmpty_AsError ==
    /\ pc = "collect_loop"
    /\ idx > pids.size
    /\ result = <<>>
    /\ stderr' = Append(stderr, "Error: No processes available.")
    /\ exitCode' = EXIT_FAILURE
    /\ pc' = "done"
    /\ UNCHANGED <<harness, live, os, lastError, handleTable, calls, topN, pids,
                   bytesReturned, attempts, idx, pid, handleOpt, pmc, result,
                   exception, stdout>>

\* collectProcesses has returned an empty vector: the message, no table.
PrintEmpty ==
    /\ pc = "collect_loop"
    /\ idx > pids.size
    /\ result = <<>>
    /\ stdout' = <<[kind |-> "none", text |-> "No processes available."]>>
    /\ exitCode' = EXIT_SUCCESS
    /\ pc' = "done"
    /\ UNCHANGED <<harness, live, os, lastError, handleTable, calls, topN, pids,
                   bytesReturned, attempts, idx, pid, handleOpt, pmc, result,
                   exception, stderr>>

\* collectProcesses has returned records: sort a copy and print the top rows.
PrintTable ==
    /\ pc = "collect_loop"
    /\ idx > pids.size
    /\ result # <<>>
    /\ \E sorted \in SortOutcomes(result) : stdout' = Table(sorted, topN)
    /\ exitCode' = EXIT_SUCCESS
    /\ pc' = "done"
    /\ UNCHANGED <<harness, live, os, lastError, handleTable, calls, topN, pids,
                   bytesReturned, attempts, idx, pid, handleOpt, pmc, result,
                   exception, stderr>>

\* An allocation fails while printing: the copy `sorted` (nothing is printed
\* yet), or the displayName of a row (the title, the header and the rows before
\* it are already on std::wcout).
PrintTableThrows ==
    /\ pc = "collect_loop"
    /\ idx > pids.size
    /\ result # <<>>
    /\ \/ stdout' = stdout
       \/ \E sorted \in SortOutcomes(result) :
             \E printed \in 0..(Clamp(topN, Len(sorted)) - 1) :
                stdout' = SubSeq(Table(sorted, topN), 1, 2 + printed)
    /\ exception' = BadAlloc("printTopByWorkingSet")
    /\ pc' = "unwinding"
    /\ UNCHANGED <<harness, live, os, lastError, handleTable, calls, topN, pids,
                   bytesReturned, attempts, idx, pid, handleOpt, pmc, result, stderr,
                   exitCode>>

\* ------------------------------------------------------------- runSniffer
\* The C++ runtime cannot deliver the std::bad_alloc (it has no memory for the
\* exception either): std::terminate, the process is aborted without a status
\* of runSniffer's.
Terminate ==
    /\ pc = "unwinding"
    /\ exception.type = "std::exception"
    /\ pc' = "terminated"
    /\ UNCHANGED <<harness, live, os, lastError, handleTable, calls, topN, pids,
                   bytesReturned, attempts, idx, pid, handleOpt, pmc, result,
                   exception, stdout, stderr, exitCode>>

\* catch (const Win32Error& ex): report on std::cerr, return EXIT_FAILURE.
CatchWin32Error ==
    /\ pc = "unwinding"
    /\ exception.type = "Win32Error"
    /\ stderr' = Append(stderr, "Win32 error: " \o exception.what)
    /\ exitCode' = EXIT_FAILURE
    /\ pc' = "done"
    /\ UNCHANGED <<harness, live, os, lastError, handleTable, calls, topN, pids,
                   bytesReturned, attempts, idx, pid, handleOpt, pmc, result,
                   exception, stdout>>

\* catch (const std::exception& ex): the handler for everything else.
CatchStdException ==
    /\ pc = "unwinding"
    /\ exception.type # "Win32Error"
    /\ \E text \in AllocFailures : stderr' = Append(stderr, "Error: " \o text)
    /\ exitCode' = EXIT_FAILURE
    /\ pc' = "done"
    /\ UNCHANGED <<harness, live, os, lastError, handleTable, calls, topN, pids,
                   bytesReturned, attempts, idx, pid, handleOpt, pmc, result,
                   exception, stdout>>

Next ==
    \/ RunSniffer
    \/ RunSnifferThrows
    \/ EnumProcessesOk
    \/ EnumProcessesFail
    \/ EnumProcessesFailNoMemory
    \/ EnumAccept
    \/ EnumAcceptThrows
    \/ EnumGrow
    \/ EnumGrowThrows
    \/ QueryProcessZero
    \/ QueryProcessOpen
    \/ QueryProcessMemFail
    \/ QueryProcessMemOk
    \/ QueryProcessReturn
    \/ QueryProcessNameTerminates
    \/ PrintEmpty
    \/ PrintTable
    \/ PrintTableThrows
    \/ CatchWin32Error
    \/ CatchStdException
    \/ Terminate

Spec == Init /\ [][Next]_vars

\* enumerateProcessIds alone, on a host where neither the primitive nor the
\* allocation of the buffer fails; the loop is sequential code, so a step that
\* can be taken is taken.
EnumNext ==
    \/ RunSniffer
    \/ EnumProcessesOk
    \/ EnumAccept
    \/ EnumGrow

EnumSpec == Init /\ [][EnumNext]_vars /\ WF_vars(EnumNext)

\* runSniffer against the stub that always reports a full buffer.
\* The memory counters of a process move between two looks at it: by how much
\* (in bytes) the working set and the private usage of every inspectable
\* process differ the second time.
Drifts == {-4096, 0, 4096}

Drifted(o, d) ==
    [p \in DOMAIN o |->
        IF o[p].mem THEN [o[p] EXCEPT !.ws = @ + d, !.priv = @ + d] ELSE o[p]]

\* A caller that calls collectProcesses a second time once the first call has
\* returned: it keeps the first vector and calls again.  ProcessQueryService
\* has no data members; what the first call left in its locals is stale
\* memory that the second call has to initialise for itself, and the
\* operating system's state carries over (open and closed handles, the last
\* error), with the memory counters moved.
CollectAgain ==
    /\ pc = "collect_loop"
    /\ idx > pids.size
    /\ ~firstPass.done
    /\ firstPass' = [done |-> TRUE, result |-> result]
    /\ \E d \in Drifts : os' = Drifted(os, d)
    /\ pc' = "start"
    /\ UNCHANGED <<wrappers, wrapCount, live, lastError, handleTable, calls, topN, pids,
                   bytesReturned, attempts, idx, pid, handleOpt, pmc, result, exception,
                   stdout, stderr, exitCode>>

TwiceNext == Next \/ CollectAgain

\* The caller of collectProcesses does not print: topN plays no part.
TwiceInit == Init /\ topN = 10

TwiceSpec == TwiceInit /\ [][TwiceNext]_vars

\* A user of ProcessHandle alone: no wrapper exists yet, no handle is open.
HandleInit == Init /\ live = <<>> /\ os = ExampleOs /\ topN = 10

HandleNext ==
    \/ \E s \in Slots, h \in 1..MaxHandles : WrapNative(s, h)
    \/ \E s \in Slots : WrapDefault(s)
    \/ \E s, t \in Slots : WrapMoveConstruct(s, t)
    \/ \E s, t \in Slots : WrapMoveAssign(s, t)
    \/ \E s \in Slots : WrapDestroy(s)

HandleSpec == HandleInit /\ [][HandleNext]_vars

StubInit == Init /\ live = <<>> /\ os = ExampleOs

StubNext ==
    \/ RunSniffer
    \/ RunSnifferThrows
    \/ EnumProcessesFull
    \/ EnumAccept
    \/ EnumGrow
    \/ EnumGrowThrows
    \/ PrintEmpty
    \/ CatchStdException
    \/ Terminate

StubSpec == StubInit /\ [][StubNext]_vars

\* ================================================================ claims
InQueryProcess == pc \in {"qp_mem", "qp_name"}
\* enumerateProcessIds has returned its vector to collectProcesses; what
\* happens later, an exception thrown elsewhere included, does not undo it.
EnumReturned ==
    IF exception.thrown
    THEN exception.from # "enumerateProcessIds"
    ELSE pc \in {"collect_loop", "qp_mem", "qp_name", "done"}

\* collectProcesses has returned its vector to runSniffer: the loop is over,
\* and printTopByWorkingSet is about to run, has returned or has thrown.
CollectReturned ==
    IF exception.thrown
    THEN exception.from = "printTopByWorkingSet"
    ELSE pc = "done" \/ (pc = "collect_loop" /\ idx > pids.size)

\* printTopByWorkingSet has returned, and with it runSniffer.
PrintReturned == pc = "done" /\ ~exception.thrown

\* std::terminate has ended the process.
Terminated == pc = "terminated"

\* C1: every handle that OpenProcess returned is closed at most once at any
\* time, and exactly once whenever no queryProcess call is in progress, on
\* every exit path of queryProcess (memory query failed, record returned).  A
\* call that std::terminate cut short has not returned: of it only "never
\* closed twice" is claimed.
C1_HandleReleasedExactlyOnce ==
    /\ \A h \in DOMAIN handleTable : handleTable[h].closes <= 1
    /\ (~InQueryProcess /\ ~Terminated) =>
          \A h \in DOMAIN handleTable : handleTable[h].closes = 1
    /\ InQueryProcess =>
          \A h \in DOMAIN handleTable :
              handleTable[h].closes = (IF h = handleOpt.handle_ THEN 0 ELSE 1)

\* Two calls have returned, one after a failed memory query and one with a record.
C1_Witness ==
    /\ pc = "collect_loop"
    /\ Len(handleTable) = 2
    /\ Len(result) = 1
    /\ \E h \in DOMAIN handleTable : ~os[handleTable[h].pid].mem

\* The smallest k with PID_VECT_SIZE * 2^k > n.
RECURSIVE MinDoublings(_, _)
MinDoublings(n, k) == IF PID_VECT_SIZE * Pow2(k) > n THEN k ELSE MinDoublings(n, k + 1)

\* C2: the buffer starts at 1024 entries and doubles on every retry; a retry
\* happens only when the count reached the capacity of the call before it; a
\* result is accepted only when the count is strictly below the capacity, and
\* the vector returned is exactly the live list, all n IDs.
C2_EnumeratorReturnsLiveList ==
    /\ pc = "enum_call" =>
          /\ pids.size = PID_VECT_SIZE * Pow2(attempts)
          /\ attempts > 0 => Len(live) >= PID_VECT_SIZE * Pow2(attempts - 1)
    /\ pc = "enum_check" =>
          /\ pids.size = PID_VECT_SIZE * Pow2(attempts - 1)
          /\ Count(bytesReturned) = Min(Len(live), pids.size)
    /\ EnumReturned =>
          /\ pids.size = Len(live)
          /\ VecSeq(pids) = live
          /\ Len(live) < PID_VECT_SIZE * Pow2(attempts - 1)
          /\ attempts > 1 => Len(live) >= PID_VECT_SIZE * Pow2(attempts - 2)

\* A list of 4096 IDs came back whole after three doublings.
C2_Witness ==
    /\ EnumReturned
    /\ attempts = 4
    /\ Len(live) = 4 * PID_VECT_SIZE
    /\ pids.size = 4 * PID_VECT_SIZE

\* An inspection of p yields a record: p is not 0, opens, and its counters are read.
Succeeds(p) == p # 0 /\ OsOutcome(os, p).open /\ OsOutcome(os, p).mem

\* C3: the vector collectProcesses returns holds one record per enumerated ID
\* whose inspection succeeds, in enumeration order, each with the ID and the
\* raw counters of the OS; for [0, 100, 200] with 100 protected and 200 being
\* app.exe at 52428800 / 20971520 bytes it is the one record of 200.
C3_CollectKeepsSuccesses ==
    CollectReturned =>
        LET ids == SelectSeq(live, Succeeds)
        IN  /\ Len(result) = Len(ids)
            /\ \A i \in DOMAIN result :
                  /\ result[i].pid = ids[i]
                  /\ result[i].workingSetBytes = os[ids[i]].ws
                  /\ result[i].privateBytes = os[ids[i]].priv
            /\ (live = <<0, 100, 200>> /\ os = ExampleOs) =>
                  result = <<[pid |-> 200, name |-> "app.exe",
                              workingSetBytes |-> 52428800,
                              privateBytes |-> 20971520]>>

\* The end-to-end example has run to completion.
C3_Witness ==
    /\ CollectReturned
    /\ live = <<0, 100, 200>>
    /\ os = ExampleOs
    /\ Len(result) = 1

Range(f) == {f[i] : i \in DOMAIN f}

\* C4: once EnumProcesses has failed, on whichever attempt, a Win32Error
\* carrying the OS error code is in flight or caught; no process was
\* inspected and no handle opened; runSniffer ends with EXIT_FAILURE, the
\* diagnostic on std::cerr and nothing on std::wcout.  runSniffer returns
\* EXIT_FAILURE only after an exception.
C4_EnumerationFailureIsFatal ==
    /\ (exception.thrown /\ exception.type = "Win32Error") =>
          /\ pc \in {"unwinding", "done"}
          /\ exception.type = "Win32Error"
          /\ exception.code = lastError
          /\ lastError \in ErrorCodes
          /\ handleTable = <<>> /\ calls = <<>> /\ idx = 0 /\ result = <<>>
          /\ stdout = <<>>
          /\ pc = "unwinding" => exitCode = -1 /\ stderr = <<>>
          /\ pc = "done" =>
                /\ exitCode = EXIT_FAILURE
                /\ stderr = <<"Win32 error: EnumProcesses failed.(error "
                                \o ToString(lastError) \o ")">>
    /\ exitCode = EXIT_FAILURE => exception.thrown

\* The third EnumProcesses call, made after two doublings, failed and was reported.
C4_Witness ==
    /\ pc = "done"
    /\ exception.thrown
    /\ exception.type = "Win32Error"
    /\ attempts = 3
    /\ pids.size = 4 * PID_VECT_SIZE
    /\ exitCode = EXIT_FAILURE

\* What runSniffer leaves behind when it returns without an error.
ReportedAsSuccess ==
    /\ exitCode = EXIT_SUCCESS
    /\ stderr = <<>>
    /\ result = <<>> =>
          stdout = <<[kind |-> "none", text |-> "No processes available."]>>
    /\ result # <<>> => Len(stdout) >= 3 /\ stdout[1].kind = "title"

\* C5: whenever enumeration succeeded, runSniffer returns EXIT_SUCCESS with
\* an empty std::cerr whatever the per-ID outcomes were; with no record at
\* all it prints the "No processes available." message, otherwise the table.
C5_ItemFailuresKeepSuccess ==
    (EnumReturned /\ pc = "done") => ReportedAsSuccess

\* C5, as amended: whenever enumeration succeeded and no memory allocation
\* failed after it, runSniffer returns EXIT_SUCCESS as above, whatever the
\* per-ID outcomes were.  After enumeration the only exception is the
\* std::bad_alloc of a failed allocation: runSniffer then returns EXIT_FAILURE
\* with "Error: " and the library's text on std::cerr, or the process is ended
\* by std::terminate; nothing else stops a run before it returns.
C5_ItemFailuresKeepSuccessUnlessOutOfMemory ==
    /\ (pc # "done" /\ ~Terminated) => exitCode = -1 /\ ENABLED Next
    /\ (EnumReturned /\ exception.thrown) => exception.type = "std::exception"
    /\ (EnumReturned /\ pc = "done") =>
          IF exception.thrown
          THEN /\ exitCode = EXIT_FAILURE
               /\ \E text \in AllocFailures : stderr = <<"Error: " \o text>>
          ELSE ReportedAsSuccess

\* Two IDs were inspected, one was denied and one failed the memory query:
\* nothing was collected and runSniffer succeeded.
C5_Witness ==
    /\ CollectReturned
    /\ result = <<>>
    /\ exitCode = EXIT_SUCCESS
    /\ \E i, j \in DOMAIN live :
          /\ live[i] # 0 /\ ~os[live[i]].open
          /\ live[j] # 0 /\ os[live[j]].open /\ ~os[live[j]].mem

\* C6: the step that inspects an ID whose OpenProcess fails issues that one
\* OS call and nothing else (no memory query, no name lookup, no CloseHandle),
\* yields no record, and leaves collectProcesses at the next ID.
C6_FailedOpenStopsInspection ==
    [][(/\ HasNext
        /\ VecAt(pids, idx) # 0
        /\ ~OsOutcome(os, VecAt(pids, idx)).open)
       => (/\ calls' = <<<<"OpenProcess", VecAt(pids, idx)>>>>
           /\ handleTable' = handleTable
           /\ handleOpt' = Nullopt
           /\ result' = result
           /\ pc' = "collect_loop"
           /\ idx' = idx + 1)]_vars

\* An open attempt has just failed.
C6_Witness ==
    /\ pc = "collect_loop"
    /\ idx > 1
    /\ pid # 0
    /\ pid = VecAt(pids, idx - 1)
    /\ ~OsOutcome(os, pid).open
    /\ calls = <<<<"OpenProcess", pid>>>>

\* C7: an inspection of ID 0 makes no OS call at all and is over in the same
\* step, whatever the OS would answer for ID 0; no handle ever refers to ID 0
\* and no record carries ID 0.
C7_ZeroIsRejectedAtOnce ==
    /\ pid = 0 => calls = <<>> /\ ~InQueryProcess
    /\ \A h \in DOMAIN handleTable : handleTable[h].pid # 0
    /\ \A i \in DOMAIN result : result[i].pid # 0

\* ID 0 was inspected on an OS that would have opened it, after another ID
\* had been inspected with OS calls.
C7_Witness ==
    /\ pc = "collect_loop"
    /\ idx > 2
    /\ VecAt(pids, idx - 1) = 0
    /\ pid = 0
    /\ os[0].open /\ os[0].mem
    /\ Len(handleTable) > 0

\* The display name the two-tier fallback prescribes for a process.
ExpectedName(o) ==
    IF o.base.found THEN o.base.text
    ELSE IF o.full.found THEN o.full.text
    ELSE UNKNOWN_NAME

\* C8: every record's name is the base name if that lookup succeeds, else the
\* full image path if that succeeds, else "<unknown>"; the full-path lookup is
\* made exactly when the base-name lookup failed; and an inspection whose
\* open and memory query succeed yields a record whatever the lookups did.
C8_NameFallback ==
    /\ \A i \in DOMAIN result :
          result[i].name = ExpectedName(OsOutcome(os, result[i].pid))
    /\ (pc = "collect_loop" /\ idx > 1 /\ Succeeds(pid)) =>
          LET h == Len(handleTable)
          IN  /\ result # <<>>
              /\ result[Len(result)].pid = pid
              /\ <<"GetModuleBaseNameW", h>> \in Range(calls)
              /\ (<<"QueryFullProcessImageNameW", h>> \in Range(calls))
                    <=> ~OsOutcome(os, pid).base.found

\* One record fell back to the full path and another to the placeholder.
C8_Witness ==
    /\ pc = "collect_loop"
    /\ Len(result) = 2
    /\ result[1].name = "C:\\Windows\\System32\\svchost.exe"
    /\ result[2].name = UNKNOWN_NAME
    /\ os[result[1].pid].full.found /\ ~os[result[1].pid].base.found

\* C9: against a primitive that never fails, enumerateProcessIds never makes
\* more than k + 1 calls, k the smallest number with 1024 * 2^k > n, and it
\* eventually returns.
C9_EnumeratorTerminates ==
    /\ [](attempts <= MinDoublings(Len(live), 0) + 1)
    /\ <>(pc = "collect_loop")

\* A list of 4096 IDs was returned after the three doublings it needs.
C9_Witness ==
    /\ pc = "collect_loop"
    /\ Len(live) = 4 * PID_VECT_SIZE
    /\ attempts = MinDoublings(Len(live), 0) + 1
    /\ attempts = 4

\* C10: every name in a printed row is at most MAX_NAME_LEN characters long,
\* and a name longer than that is shown cut, ending in "...".
C10_DisplayNameWithinLimit ==
    pc = "done" =>
        \A i \in DOMAIN stdout :
            stdout[i].kind = "row" =>
                /\ Len(stdout[i].displayName) <= MAX_NAME_LEN
                /\ \A r \in Range(result) :
                      (r.pid = stdout[i].pid /\ Len(r.name) > MAX_NAME_LEN) =>
                          SubSeq(stdout[i].displayName,
                                 Len(stdout[i].displayName) - 2,
                                 Len(stdout[i].displayName)) = "..."

\* The rows of a printed table, behind its title and header lines.
Rows(out) == SubSeq(out, 3, Len(out))

\* Row i of the printed rows shows a record with the i-th largest working set
\* of the collection.
RowInPlace(rows, i) ==
    LET w == OsOutcome(os, rows[i].pid).ws
    IN  /\ rows[i].kind = "row"
        /\ \E j \in DOMAIN result : result[j].pid = rows[i].pid
        /\ Cardinality({j \in DOMAIN result : result[j].workingSetBytes > w}) < i
        /\ Cardinality({j \in DOMAIN result : result[j].workingSetBytes >= w}) >= i

\* C11: once runSniffer has returned with records collected, the table has
\* exactly min(topN, number of records) rows, its title names that number,
\* and row i shows a record with the i-th largest working set of the
\* collection (so the rows descend and the first row is the largest); asking
\* for more rows than there are records is no error.
C11_TopRowsDescending ==
    (CollectReturned /\ result # <<>> /\ pc = "done") =>
        LET rows == Rows(stdout)
            k == Min(topN, Len(result))
        IN  /\ exitCode = EXIT_SUCCESS
            /\ Len(rows) = k
            /\ stdout[1].topN = k
            /\ \A i \in 1..k : RowInPlace(rows, i)

\* C11, as amended: the same, unless a memory allocation fails inside
\* printTopByWorkingSet.  Then runSniffer returns EXIT_FAILURE and std::wcout
\* holds nothing, or the title (naming min(topN, records)), the header and
\* fewer rows than that; the rows that were printed are the leading rows of
\* the descending order all the same.
C11_TopRowsDescendingUnlessOutOfMemory ==
    (CollectReturned /\ result # <<>> /\ pc = "done") =>
        LET rows == Rows(stdout)
            k == Min(topN, Len(result))
        IN  /\ IF exception.thrown
               THEN exitCode = EXIT_FAILURE /\ (stdout = <<>> \/ Len(rows) < k)
               ELSE exitCode = EXIT_SUCCESS /\ Len(rows) = k
            /\ stdout # <<>> =>
                  /\ Len(stdout) >= 2
                  /\ stdout[1].topN = k
                  /\ \A i \in 1..Len(rows) : RowInPlace(rows, i)

\* Asked for one row of the records of 100 (10 MiB) and 200 (50 MiB),
\* collected in that order, the table shows 200 alone.
C11_Witness ==
    /\ PrintReturned
    /\ topN = 1
    /\ Len(result) = 2
    /\ result[1].pid = 100 /\ result[2].pid = 200
    /\ Len(stdout) = 3
    /\ stdout[3].pid = 200

\* The row limit that runSniffer's documentation says is hardcoded.
DOCUMENTED_TOP_N == 15

\* C12: whatever argument runSniffer is given, a printed table has
\* min(15, number of records) rows.
C12_ArgumentIgnoredForFifteen ==
    (PrintReturned /\ result # <<>>) =>
        /\ Len(Rows(stdout)) = Min(DOCUMENTED_TOP_N, Len(result))
        /\ stdout[1].topN = Min(DOCUMENTED_TOP_N, Len(result))

\* C13: against the stub that always reports the whole buffer as used,
\* enumerateProcessIds never accepts a result: it stays in its loop for as
\* long as the host has memory for the next buffer, the capacity is
\* 1024 * 2^retries, and the byte size handed to (and reported by) the stub is
\* the capacity times sizeof(DWORD) as a 32-bit value.
C13_StubGrowsForever ==
    /\ pc \in {"start", "enum_call", "enum_check", "unwinding", "done", "terminated"}
    /\ pc \in {"unwinding", "done", "terminated"} => exception.type = "std::exception"
    /\ pc = "enum_call" => pids.size = PID_VECT_SIZE * Pow2(attempts)
    /\ pc = "enum_check" =>
          /\ pids.size = PID_VECT_SIZE * Pow2(attempts - 1)
          /\ bytesReturned = Dword(pids.size, 0)

\* The second call of collectProcesses has returned.
SecondPassReturned == firstPass.done /\ CollectReturned

\* C14: a collection pass keeps no state of its own: a second pass over the
\* same live IDs with the same open, query and name outcomes, started from
\* whatever the first left behind and with the memory counters moved, returns
\* the same processes with the same names in the same order, and every byte
\* count of either pass is non-negative.
C14_PassesAgree ==
    SecondPassReturned =>
        /\ Len(result) = Len(firstPass.result)
        /\ \A i \in DOMAIN result :
              /\ result[i].pid = firstPass.result[i].pid
              /\ result[i].name = firstPass.result[i].name
              /\ result[i].workingSetBytes >= 0
              /\ result[i].privateBytes >= 0
              /\ firstPass.result[i].workingSetBytes >= 0
              /\ firstPass.result[i].privateBytes >= 0

\* Both passes returned the same two processes, through four handles, with
\* byte counts that moved in between.
C14_Witness ==
    /\ SecondPassReturned
    /\ Len(firstPass.result) = 2
    /\ Len(result) = 2
    /\ Len(handleTable) = 4
    /\ result[1].workingSetBytes # firstPass.result[1].workingSetBytes

\* The live wrappers that hold native handle h.
Holders(h) == {s \in Slots : wrappers[s].live /\ wrappers[s].handle_ = h}

\* No handle has two owners; a handle is open exactly while a live wrapper
\* holds it, and is closed once, never twice, when no wrapper holds it any more
\* (so once every wrapper is destroyed every wrapped handle was closed once).
Ownership ==
    \A h \in DOMAIN handleTable :
        /\ Cardinality(Holders(h)) <= 1
        /\ handleTable[h].closes = (IF Holders(h) = {} THEN 1 ELSE 0)

\* What each move does to the two objects and to the handles.
MoveEffects ==
    \A s, t \in Slots :
        /\ WrapMoveConstruct(s, t) =>
              /\ wrappers'[t] = [live |-> TRUE, handle_ |-> NULL]
              /\ wrappers'[s] = [live |-> TRUE, handle_ |-> wrappers[t].handle_]
              /\ handleTable' = handleTable
        /\ (s # t /\ WrapMoveAssign(s, t)) =>
              /\ wrappers'[t] = [live |-> TRUE, handle_ |-> NULL]
              /\ wrappers'[s] = [live |-> TRUE, handle_ |-> wrappers[t].handle_]
              /\ \A h \in DOMAIN handleTable :
                    handleTable'[h].closes =
                        handleTable[h].closes + (IF h = wrappers[s].handle_ THEN 1 ELSE 0)
        /\ WrapMoveAssign(s, s) => UNCHANGED vars

\* Every native handle was given to ProcessHandle(HANDLE) at most once.
WrappedOnce == \A h \in DOMAIN wrapCount : wrapCount[h] <= 1

\* C15, as amended: provided every native handle is given to the constructor
\* at most once, no two live wrappers hold the same non-null handle and every
\* wrapped handle is closed exactly once by the time no wrapper holds it; in
\* any case a moved-from wrapper holds null, move assignment closes the handle
\* the target held and takes the source's, and a self-move-assignment changes
\* nothing.
C15_OwnershipOfHandlesWrappedOnce ==
    [](WrappedOnce => Ownership) /\ [][MoveEffects]_vars

\* C15: the ownership invariant of ProcessHandle under construction from a
\* native handle, move construction, move assignment, self-move-assignment and
\* destruction: no two live wrappers hold the same non-null handle, a moved-from
\* wrapper holds null, move assignment closes the handle the target held and
\* takes the source's, a self-move-assignment changes nothing, and every
\* wrapped handle is closed exactly once by the time all wrappers are destroyed.
C15_HandleOwnership == []Ownership /\ [][MoveEffects]_vars

\* Place 1 was move-assigned from place 2: it now holds handle 2, its former
\* handle 1 is closed, and place 2 is alive and empty.
C15_Witness ==
    /\ WrappedOnce
    /\ Len(handleTable) = 2
    /\ wrappers[1] = [live |-> TRUE, handle_ |-> 2]
    /\ wrappers[2] = [live |-> TRUE, handle_ |-> NULL]
    /\ handleTable[1].closes = 1
    /\ handleTable[2].closes = 0

\* C16: during a run at most one process handle is open at any moment: a
\* handle is open only inside queryProcess, where it is the one that call
\* opened, so it is released before the next ID is tried; none is open while
\* enumerateProcessIds runs, nor once collectProcesses has returned or failed.
C16_AtMostOneHandleOpen ==
    /\ Cardinality(OpenHandles(handleTable)) <= 1
    /\ InQueryProcess =>
          /\ handleOpt.has
          /\ OpenHandles(handleTable) = {handleOpt.handle_}
          /\ handleTable[handleOpt.handle_].pid = pid
    /\ (~InQueryProcess /\ ~Terminated) => OpenHandles(handleTable) = {}

\* The second handle of a pass is open and the first is already closed.
C16_Witness ==
    /\ pc = "qp_mem"
    /\ Len(handleTable) = 2
    /\ handleTable[1].closes = 1
    /\ OpenHandles(handleTable) = {2}

====
